---- MODULE Spec2Model ----
(***************************************************************************)
(* A model of the dondo library (monster statblock statistics): the dice   *)
(* expression algebra (dice.rs), ability scores and the challenge-rating   *)
(* tables (basetraits.rs), resistances (creature.rs), attack descriptions  *)
(* (action.rs) and the combat engine (combat.rs).                          *)
(*                                                                         *)
(* The library is a set of pure functions.  The state is the call a client *)
(* has made (`call`: the function and its arguments) and what it returned  *)
(* (`ret`): a client that holds no call makes one, the function runs to    *)
(* its result (a value or a panic), and the client takes the result.       *)
(*                                                                         *)
(* f64 values are modelled as exact rationals [n, d] (d > 0); every f64    *)
(* the modelled code computes from the bounded inputs below is a fraction  *)
(* whose comparison and truncation are decided exactly.                    *)
(***************************************************************************)
EXTENDS Integers, Sequences, FiniteSets, TLC

VARIABLES call, ret

vars == <<call, ret>>

(***************************************************************************)
(* Bounds of the model.                                                    *)
(***************************************************************************)
MaxSides == 20       \* faces of a die in an expression
MaxCount == 8        \* count of a Times node
MaxConst == 3        \* largest Const value
MaxNegConst == 2     \* Const values go down to -MaxNegConst
MaxNest == 2         \* sides, constants and counts of the nested expressions
MaxQuery == 3        \* cum_prob / prob_pass arguments: -MaxQuery .. MaxSides + MaxQuery
RollSides == 8       \* faces of a die in a rolled expression
RollCount == 2       \* count of a Times node in a rolled expression
MaxScore == 20       \* ability scores: 0 .. MaxScore
MaxHP == 900         \* hit points given to CR::from: 0 .. MaxHP
MaxDamage == 320     \* damage given to for_expected_damage: 0 .. MaxDamage
MaxReal == 31        \* f64 given to CR::from: -1 .. MaxReal, in steps of 1/40
MaxRolls == 2        \* damage rolls of an attack
MaxBonus == 3        \* dmg_bonus: -MaxBonus .. MaxBonus
MaxDC == 22          \* SavingDC::Exactly: 0 .. MaxDC
MaxHitDice == 8      \* BaseCreature::hit_dice: 0 .. MaxHitDice
MaxTargets == 3      \* Target::Exactly: 0 .. MaxTargets

(***************************************************************************)
(* f64 arithmetic, exact on the values the model reaches.                  *)
(***************************************************************************)
Rat(n, d) == [n |-> n, d |-> d]
FromInt(i) == Rat(i, 1)
RAdd(a, b) == Rat(a.n * b.d + b.n * a.d, a.d * b.d)
RSub(a, b) == Rat(a.n * b.d - b.n * a.d, a.d * b.d)
RMul(a, b) == Rat(a.n * b.n, a.d * b.d)
\* a / b for b > 0
RDiv(a, b) == Rat(a.n * b.d, a.d * b.n)
REq(a, b) == a.n * b.d = b.n * a.d
RLt(a, b) == a.n * b.d < b.n * a.d
RLe(a, b) == a.n * b.d <= b.n * a.d
\* f64::max
RMax(a, b) == IF RLt(a, b) THEN b ELSE a
\* Rust's integer division: the quotient truncated toward zero (b > 0)
RustDiv(a, b) == IF a >= 0 THEN a \div b ELSE -((-a) \div b)
\* `x as isize` of an f64: the fraction is dropped (truncation toward zero)
AsIsize(a) == RustDiv(a.n, a.d)

\* f64 `as usize`: truncation toward zero, saturating at 0 for negatives
AsUsize(a) == IF RLt(a, FromInt(0)) THEN 0 ELSE RustDiv(a.n, a.d)

\* What a call returns: a value (an f64 or a struct in `val`, an integer in
\* `int`, a CR in `cr`, a Vec in `vec`), or the panic of unimplemented!()
Ok(v) == [ok |-> TRUE, val |-> v]
OkInt(i) == [ok |-> TRUE, int |-> i]
OkCR(c) == [ok |-> TRUE, cr |-> c]
OkVec(v) == [ok |-> TRUE, vec |-> v]
Nothing == [ok |-> TRUE]
Unimplemented == [ok |-> FALSE, msg |-> "not implemented"]

(***************************************************************************)
(* dice.rs: DiceExpr and DiceRoll                                          *)
(***************************************************************************)
Die(n) == [tag |-> "Die", sides |-> n]
Times(n, ex) == [tag |-> "Times", n |-> n, ex |-> ex]
Plus(xa, xb) == [tag |-> "Plus", xa |-> xa, xb |-> xb]
Const(v) == [tag |-> "Const", v |-> v]

RollDie(d, v) == [tag |-> "Die", sides |-> d, val |-> v]
RollTimes(n, ex, drs) == [tag |-> "Times", n |-> n, ex |-> ex, drs |-> drs]
RollPlus(xa, xb, va, vb) == [tag |-> "Plus", xa |-> xa, xb |-> xb, va |-> va, vb |-> vb]
RollConst(v) == [tag |-> "Const", v |-> v]

\* a mutant of gen_range: the upper bound is included
gen_range_inclusive(low, high) == low .. high

\* rng.gen_range(low, high): every integer in [low, high)
gen_range(low, high) == low .. (high - 1)

RECURSIVE roll(_)
\* DiceExpr::roll: the set of DiceRolls it can return, over every state of rng
roll(e) ==
    CASE e.tag = "Die" -> {RollDie(e.sides, v) : v \in gen_range(1, e.sides + 1)}
      [] e.tag = "Times" ->
            {RollTimes(e.n, e.ex, drs) : drs \in [1 .. e.n -> roll(e.ex)]}
      [] e.tag = "Plus" ->
            {RollPlus(e.xa, e.xb, va, vb) : va \in roll(e.xa), vb \in roll(e.xb)}
      [] e.tag = "Const" -> {RollConst(e.v)}

\* a mutant of cum_prob: a Const is compared with <=, and a Times of one term
\* is answered by its term
cum_prob_lenient(e, i) ==
    CASE e.tag = "Die" ->
            IF i <= 0 THEN Ok(FromInt(0))
            ELSE IF i >= e.sides THEN Ok(FromInt(1))
            ELSE Ok(RDiv(FromInt(i), FromInt(e.sides)))
      [] e.tag = "Const" ->
            IF i <= e.v THEN Ok(FromInt(0)) ELSE Ok(FromInt(1))
      [] e.tag = "Times" /\ e.n = 1 /\ e.ex.tag = "Const" ->
            IF i < e.ex.v THEN Ok(FromInt(0)) ELSE Ok(FromInt(1))
      [] OTHER -> Unimplemented

\* DiceExpr::cum_prob
cum_prob(e, i) ==
    CASE e.tag = "Die" ->
            IF i <= 0 THEN Ok(FromInt(0))
            ELSE IF i >= e.sides THEN Ok(FromInt(1))
            ELSE Ok(RDiv(FromInt(i), FromInt(e.sides)))
      [] e.tag = "Const" ->
            IF i < e.v THEN Ok(FromInt(0)) ELSE Ok(FromInt(1))
      [] OTHER -> Unimplemented

\* DiceExpr::prob_pass
prob_pass(e, check) ==
    LET c == cum_prob(e, check - 1)
    IN  IF c.ok THEN Ok(RSub(FromInt(1), c.val)) ELSE c

RECURSIVE expected(_)
\* a mutant of expected: a die averages to sides / 2
expected_half(e) ==
    CASE e.tag = "Die" -> RDiv(FromInt(e.sides), FromInt(2))
      [] e.tag = "Times" -> RMul(FromInt(e.n), expected(e.ex))
      [] e.tag = "Plus" -> RAdd(expected(e.xa), expected(e.xb))
      [] e.tag = "Const" -> FromInt(e.v)

\* impl ExpectedValue for DiceExpr
expected(e) ==
    CASE e.tag = "Die" -> RDiv(RAdd(FromInt(1), FromInt(e.sides)), FromInt(2))
      [] e.tag = "Times" -> RMul(FromInt(e.n), expected(e.ex))
      [] e.tag = "Plus" -> RAdd(expected(e.xa), expected(e.xb))
      [] e.tag = "Const" -> FromInt(e.v)

RECURSIVE SumValues(_, _)
RECURSIVE value(_)
\* the .sum() of dice.rs:100 over the rolls drs[1..k]
SumValues(drs, k) == IF k = 0 THEN 0 ELSE SumValues(drs, k - 1) + value(drs[k])

\* DiceRoll::value
value(r) ==
    CASE r.tag = "Die" -> r.val
      [] r.tag = "Times" -> SumValues(r.drs, Len(r.drs))
      [] r.tag = "Plus" -> value(r.va) + value(r.vb)
      [] r.tag = "Const" -> r.v

\* DiceRoll::expr
expr(r) ==
    CASE r.tag = "Die" -> Die(r.sides)
      [] r.tag = "Times" -> Times(r.n, r.ex)
      [] r.tag = "Plus" -> Plus(r.xa, r.xb)
      [] r.tag = "Const" -> Const(r.v)

(***************************************************************************)
(* basetraits.rs: abilities, ability modifiers, challenge rating           *)
(***************************************************************************)
Ability == {"Str", "Dex", "Con", "Int", "Wis", "Cha"}

\* struct Abilities
Abilities(str, dex, con, int, wis, cha) ==
    [str |-> str, dex |-> dex, con |-> con, int |-> int, wis |-> wis, cha |-> cha]

\* Abilities::map; the closure is a function on isize
Abilities_map(a, func) ==
    Abilities(func[a.str], func[a.dex], func[a.con], func[a.int], func[a.wis], func[a.cha])

\* impl Index<Ability> for Abilities
Abilities_index(a, idx) ==
    CASE idx = "Str" -> a.str
      [] idx = "Dex" -> a.dex
      [] idx = "Con" -> a.con
      [] idx = "Int" -> a.int
      [] idx = "Wis" -> a.wis
      [] idx = "Cha" -> a.cha

\* impl Default for AScores
AScores_default == Abilities(10, 10, 10, 10, 10, 10)

\* impl From<T> for AMods: |x| (x - 10) / 2, in Rust's integer division
AMods_from(scores) == Abilities_map(scores, [x \in Int |-> RustDiv(x - 10, 2)])

\* enum Size
Size == {"Tiny", "Small", "Medium", "Large", "Huge", "Gargantuan"}

\* Size::hit_die
hit_die(size) ==
    CASE size = "Tiny" -> 4
      [] size = "Small" -> 6
      [] size = "Medium" -> 8
      [] size = "Large" -> 10
      [] size = "Huge" -> 12
      [] size = "Gargantuan" -> 20

\* enum CR, in the order of its declaration (the derived Ord)
CRLevels == <<"CR0", "CROneEighth", "CROneQuarter", "CROneHalf",
    "CR1", "CR2", "CR3", "CR4", "CR5", "CR6", "CR7", "CR8", "CR9", "CR10",
    "CR11", "CR12", "CR13", "CR14", "CR15", "CR16", "CR17", "CR18", "CR19", "CR20",
    "CR21", "CR22", "CR23", "CR24", "CR25", "CR26", "CR27", "CR28", "CR29", "CR30">>
CR == {CRLevels[k] : k \in DOMAIN CRLevels}

\* impl Into<f64> for CR
CR_into_f64(cr) ==
    CASE cr = "CR0" -> Rat(0, 1)
      [] cr = "CROneEighth" -> Rat(1, 8)
      [] cr = "CROneQuarter" -> Rat(1, 4)
      [] cr = "CROneHalf" -> Rat(1, 2)
      [] cr = "CR1" -> Rat(1, 1)
      [] cr = "CR2" -> Rat(2, 1)
      [] cr = "CR3" -> Rat(3, 1)
      [] cr = "CR4" -> Rat(4, 1)
      [] cr = "CR5" -> Rat(5, 1)
      [] cr = "CR6" -> Rat(6, 1)
      [] cr = "CR7" -> Rat(7, 1)
      [] cr = "CR8" -> Rat(8, 1)
      [] cr = "CR9" -> Rat(9, 1)
      [] cr = "CR10" -> Rat(10, 1)
      [] cr = "CR11" -> Rat(11, 1)
      [] cr = "CR12" -> Rat(12, 1)
      [] cr = "CR13" -> Rat(13, 1)
      [] cr = "CR14" -> Rat(14, 1)
      [] cr = "CR15" -> Rat(15, 1)
      [] cr = "CR16" -> Rat(16, 1)
      [] cr = "CR17" -> Rat(17, 1)
      [] cr = "CR18" -> Rat(18, 1)
      [] cr = "CR19" -> Rat(19, 1)
      [] cr = "CR20" -> Rat(20, 1)
      [] cr = "CR21" -> Rat(21, 1)
      [] cr = "CR22" -> Rat(22, 1)
      [] cr = "CR23" -> Rat(23, 1)
      [] cr = "CR24" -> Rat(24, 1)
      [] cr = "CR25" -> Rat(25, 1)
      [] cr = "CR26" -> Rat(26, 1)
      [] cr = "CR27" -> Rat(27, 1)
      [] cr = "CR28" -> Rat(28, 1)
      [] cr = "CR29" -> Rat(29, 1)
      [] cr = "CR30" -> Rat(30, 1)

\* a mutant of CR_from_f64: the level values are compared with <
CR_from_f64_exclusive(x) ==
    IF RLt(x, Rat(0, 1)) THEN "CR0"
    ELSE IF RLt(x, Rat(1, 8)) THEN "CROneEighth"
    ELSE IF RLt(x, Rat(1, 4)) THEN "CROneQuarter"
    ELSE IF RLt(x, Rat(1, 2)) THEN "CROneHalf"
    ELSE IF RLt(x, Rat(1, 1)) THEN "CR1"
    ELSE IF RLt(x, Rat(2, 1)) THEN "CR2"
    ELSE IF RLt(x, Rat(3, 1)) THEN "CR3"
    ELSE IF RLt(x, Rat(4, 1)) THEN "CR4"
    ELSE IF RLt(x, Rat(5, 1)) THEN "CR5"
    ELSE IF RLt(x, Rat(6, 1)) THEN "CR6"
    ELSE IF RLt(x, Rat(7, 1)) THEN "CR7"
    ELSE IF RLt(x, Rat(8, 1)) THEN "CR8"
    ELSE IF RLt(x, Rat(9, 1)) THEN "CR9"
    ELSE IF RLt(x, Rat(10, 1)) THEN "CR10"
    ELSE IF RLt(x, Rat(11, 1)) THEN "CR11"
    ELSE IF RLt(x, Rat(12, 1)) THEN "CR12"
    ELSE IF RLt(x, Rat(13, 1)) THEN "CR13"
    ELSE IF RLt(x, Rat(14, 1)) THEN "CR14"
    ELSE IF RLt(x, Rat(15, 1)) THEN "CR15"
    ELSE IF RLt(x, Rat(16, 1)) THEN "CR16"
    ELSE IF RLt(x, Rat(17, 1)) THEN "CR17"
    ELSE IF RLt(x, Rat(18, 1)) THEN "CR18"
    ELSE IF RLt(x, Rat(19, 1)) THEN "CR19"
    ELSE IF RLt(x, Rat(20, 1)) THEN "CR20"
    ELSE IF RLt(x, Rat(21, 1)) THEN "CR21"
    ELSE IF RLt(x, Rat(22, 1)) THEN "CR22"
    ELSE IF RLt(x, Rat(23, 1)) THEN "CR23"
    ELSE IF RLt(x, Rat(24, 1)) THEN "CR24"
    ELSE IF RLt(x, Rat(25, 1)) THEN "CR25"
    ELSE IF RLt(x, Rat(26, 1)) THEN "CR26"
    ELSE IF RLt(x, Rat(27, 1)) THEN "CR27"
    ELSE IF RLt(x, Rat(28, 1)) THEN "CR28"
    ELSE IF RLt(x, Rat(29, 1)) THEN "CR29"
    ELSE "CR30"

\* impl From<f64> for CR
CR_from_f64(x) ==
    IF RLe(x, Rat(0, 1)) THEN "CR0"
    ELSE IF RLe(x, Rat(1, 8)) THEN "CROneEighth"
    ELSE IF RLe(x, Rat(1, 4)) THEN "CROneQuarter"
    ELSE IF RLe(x, Rat(1, 2)) THEN "CROneHalf"
    ELSE IF RLe(x, Rat(1, 1)) THEN "CR1"
    ELSE IF RLe(x, Rat(2, 1)) THEN "CR2"
    ELSE IF RLe(x, Rat(3, 1)) THEN "CR3"
    ELSE IF RLe(x, Rat(4, 1)) THEN "CR4"
    ELSE IF RLe(x, Rat(5, 1)) THEN "CR5"
    ELSE IF RLe(x, Rat(6, 1)) THEN "CR6"
    ELSE IF RLe(x, Rat(7, 1)) THEN "CR7"
    ELSE IF RLe(x, Rat(8, 1)) THEN "CR8"
    ELSE IF RLe(x, Rat(9, 1)) THEN "CR9"
    ELSE IF RLe(x, Rat(10, 1)) THEN "CR10"
    ELSE IF RLe(x, Rat(11, 1)) THEN "CR11"
    ELSE IF RLe(x, Rat(12, 1)) THEN "CR12"
    ELSE IF RLe(x, Rat(13, 1)) THEN "CR13"
    ELSE IF RLe(x, Rat(14, 1)) THEN "CR14"
    ELSE IF RLe(x, Rat(15, 1)) THEN "CR15"
    ELSE IF RLe(x, Rat(16, 1)) THEN "CR16"
    ELSE IF RLe(x, Rat(17, 1)) THEN "CR17"
    ELSE IF RLe(x, Rat(18, 1)) THEN "CR18"
    ELSE IF RLe(x, Rat(19, 1)) THEN "CR19"
    ELSE IF RLe(x, Rat(20, 1)) THEN "CR20"
    ELSE IF RLe(x, Rat(21, 1)) THEN "CR21"
    ELSE IF RLe(x, Rat(22, 1)) THEN "CR22"
    ELSE IF RLe(x, Rat(23, 1)) THEN "CR23"
    ELSE IF RLe(x, Rat(24, 1)) THEN "CR24"
    ELSE IF RLe(x, Rat(25, 1)) THEN "CR25"
    ELSE IF RLe(x, Rat(26, 1)) THEN "CR26"
    ELSE IF RLe(x, Rat(27, 1)) THEN "CR27"
    ELSE IF RLe(x, Rat(28, 1)) THEN "CR28"
    ELSE IF RLe(x, Rat(29, 1)) THEN "CR29"
    ELSE "CR30"

\* impl From<CR> for AC
AC_from_CR(cr) ==
    LET crf == CR_into_f64(cr)
    IN
        IF RLt(crf, FromInt(4)) THEN 13
        ELSE IF RLt(crf, FromInt(5)) THEN 14
        ELSE IF RLt(crf, FromInt(8)) THEN 15
        ELSE IF RLt(crf, FromInt(10)) THEN 16
        ELSE IF RLt(crf, FromInt(13)) THEN 17
        ELSE IF RLt(crf, FromInt(17)) THEN 18
        ELSE 19

\* a mutant of ProfBonus_from_CR: the breakpoints are compared with <=
ProfBonus_from_CR_inclusive(cr) ==
    LET crf == CR_into_f64(cr)
    IN
        IF RLe(crf, FromInt(5)) THEN 2
        ELSE IF RLe(crf, FromInt(9)) THEN 3
        ELSE IF RLe(crf, FromInt(13)) THEN 4
        ELSE IF RLe(crf, FromInt(17)) THEN 5
        ELSE IF RLe(crf, FromInt(21)) THEN 6
        ELSE IF RLe(crf, FromInt(25)) THEN 7
        ELSE IF RLe(crf, FromInt(29)) THEN 8
        ELSE 9

\* impl From<CR> for ProfBonus
ProfBonus_from_CR(cr) ==
    LET crf == CR_into_f64(cr)
    IN
        IF RLt(crf, FromInt(5)) THEN 2
        ELSE IF RLt(crf, FromInt(9)) THEN 3
        ELSE IF RLt(crf, FromInt(13)) THEN 4
        ELSE IF RLt(crf, FromInt(17)) THEN 5
        ELSE IF RLt(crf, FromInt(21)) THEN 6
        ELSE IF RLt(crf, FromInt(25)) THEN 7
        ELSE IF RLt(crf, FromInt(29)) THEN 8
        ELSE 9

\* a mutant of CR_from_HP: the thresholds are compared with <
CR_from_HP_exclusive(hp) ==
    IF hp < 6 THEN "CR0"
    ELSE IF hp < 35 THEN "CROneEighth"
    ELSE IF hp < 49 THEN "CROneQuarter"
    ELSE IF hp < 70 THEN "CROneHalf"
    ELSE IF hp < 85 THEN "CR1"
    ELSE IF hp < 100 THEN "CR2"
    ELSE IF hp < 115 THEN "CR3"
    ELSE IF hp < 130 THEN "CR4"
    ELSE IF hp < 145 THEN "CR5"
    ELSE IF hp < 160 THEN "CR6"
    ELSE IF hp < 175 THEN "CR7"
    ELSE IF hp < 190 THEN "CR8"
    ELSE IF hp < 205 THEN "CR9"
    ELSE IF hp < 220 THEN "CR10"
    ELSE IF hp < 235 THEN "CR11"
    ELSE IF hp < 250 THEN "CR12"
    ELSE IF hp < 265 THEN "CR13"
    ELSE IF hp < 280 THEN "CR14"
    ELSE IF hp < 295 THEN "CR15"
    ELSE IF hp < 310 THEN "CR16"
    ELSE IF hp < 325 THEN "CR17"
    ELSE IF hp < 340 THEN "CR18"
    ELSE IF hp < 355 THEN "CR19"
    ELSE IF hp < 400 THEN "CR20"
    ELSE IF hp < 445 THEN "CR21"
    ELSE IF hp < 490 THEN "CR22"
    ELSE IF hp < 535 THEN "CR23"
    ELSE IF hp < 580 THEN "CR24"
    ELSE IF hp < 625 THEN "CR25"
    ELSE IF hp < 670 THEN "CR26"
    ELSE IF hp < 715 THEN "CR27"
    ELSE IF hp < 760 THEN "CR28"
    ELSE IF hp < 805 THEN "CR29"
    ELSE "CR30"

\* impl From<HP> for CR
CR_from_HP(hp) ==
    IF hp <= 6 THEN "CR0"
    ELSE IF hp <= 35 THEN "CROneEighth"
    ELSE IF hp <= 49 THEN "CROneQuarter"
    ELSE IF hp <= 70 THEN "CROneHalf"
    ELSE IF hp <= 85 THEN "CR1"
    ELSE IF hp <= 100 THEN "CR2"
    ELSE IF hp <= 115 THEN "CR3"
    ELSE IF hp <= 130 THEN "CR4"
    ELSE IF hp <= 145 THEN "CR5"
    ELSE IF hp <= 160 THEN "CR6"
    ELSE IF hp <= 175 THEN "CR7"
    ELSE IF hp <= 190 THEN "CR8"
    ELSE IF hp <= 205 THEN "CR9"
    ELSE IF hp <= 220 THEN "CR10"
    ELSE IF hp <= 235 THEN "CR11"
    ELSE IF hp <= 250 THEN "CR12"
    ELSE IF hp <= 265 THEN "CR13"
    ELSE IF hp <= 280 THEN "CR14"
    ELSE IF hp <= 295 THEN "CR15"
    ELSE IF hp <= 310 THEN "CR16"
    ELSE IF hp <= 325 THEN "CR17"
    ELSE IF hp <= 340 THEN "CR18"
    ELSE IF hp <= 355 THEN "CR19"
    ELSE IF hp <= 400 THEN "CR20"
    ELSE IF hp <= 445 THEN "CR21"
    ELSE IF hp <= 490 THEN "CR22"
    ELSE IF hp <= 535 THEN "CR23"
    ELSE IF hp <= 580 THEN "CR24"
    ELSE IF hp <= 625 THEN "CR25"
    ELSE IF hp <= 670 THEN "CR26"
    ELSE IF hp <= 715 THEN "CR27"
    ELSE IF hp <= 760 THEN "CR28"
    ELSE IF hp <= 805 THEN "CR29"
    ELSE "CR30"

\* CR::for_expected_damage
for_expected_damage(dmg) ==
    IF dmg <= 1 THEN "CR0"
    ELSE IF dmg <= 3 THEN "CROneEighth"
    ELSE IF dmg <= 5 THEN "CROneQuarter"
    ELSE IF dmg <= 8 THEN "CROneHalf"
    ELSE IF dmg <= 14 THEN "CR1"
    ELSE IF dmg <= 20 THEN "CR2"
    ELSE IF dmg <= 26 THEN "CR3"
    ELSE IF dmg <= 32 THEN "CR4"
    ELSE IF dmg <= 38 THEN "CR5"
    ELSE IF dmg <= 44 THEN "CR6"
    ELSE IF dmg <= 50 THEN "CR7"
    ELSE IF dmg <= 56 THEN "CR8"
    ELSE IF dmg <= 62 THEN "CR9"
    ELSE IF dmg <= 68 THEN "CR10"
    ELSE IF dmg <= 74 THEN "CR11"
    ELSE IF dmg <= 80 THEN "CR12"
    ELSE IF dmg <= 86 THEN "CR13"
    ELSE IF dmg <= 92 THEN "CR14"
    ELSE IF dmg <= 98 THEN "CR15"
    ELSE IF dmg <= 104 THEN "CR16"
    ELSE IF dmg <= 110 THEN "CR17"
    ELSE IF dmg <= 116 THEN "CR18"
    ELSE IF dmg <= 122 THEN "CR19"
    ELSE IF dmg <= 140 THEN "CR20"
    ELSE IF dmg <= 158 THEN "CR21"
    ELSE IF dmg <= 176 THEN "CR22"
    ELSE IF dmg <= 194 THEN "CR23"
    ELSE IF dmg <= 212 THEN "CR24"
    ELSE IF dmg <= 230 THEN "CR25"
    ELSE IF dmg <= 248 THEN "CR26"
    ELSE IF dmg <= 266 THEN "CR27"
    ELSE IF dmg <= 284 THEN "CR28"
    ELSE IF dmg <= 302 THEN "CR29"
    ELSE "CR30"

\* CR::to_hit_bonus
to_hit_bonus(cr) ==
    LET crf == CR_into_f64(cr)
    IN
        IF RLt(crf, FromInt(3)) THEN 3
        ELSE IF RLt(crf, FromInt(4)) THEN 4
        ELSE IF RLt(crf, FromInt(5)) THEN 5
        ELSE IF RLt(crf, FromInt(8)) THEN 6
        ELSE IF RLt(crf, FromInt(11)) THEN 7
        ELSE IF RLt(crf, FromInt(16)) THEN 8
        ELSE IF RLt(crf, FromInt(17)) THEN 9
        ELSE IF RLt(crf, FromInt(21)) THEN 10
        ELSE IF RLt(crf, FromInt(24)) THEN 11
        ELSE IF RLt(crf, FromInt(27)) THEN 12
        ELSE IF RLt(crf, FromInt(30)) THEN 13
        ELSE 14

\* CR::save_dc
save_dc(cr) ==
    LET crf == CR_into_f64(cr)
    IN
        IF RLt(crf, FromInt(4)) THEN 13
        ELSE IF RLt(crf, FromInt(5)) THEN 14
        ELSE IF RLt(crf, FromInt(8)) THEN 15
        ELSE IF RLt(crf, FromInt(11)) THEN 16
        ELSE IF RLt(crf, FromInt(13)) THEN 17
        ELSE IF RLt(crf, FromInt(17)) THEN 18
        ELSE IF RLt(crf, FromInt(21)) THEN 19
        ELSE IF RLt(crf, FromInt(24)) THEN 20
        ELSE IF RLt(crf, FromInt(27)) THEN 21
        ELSE IF RLt(crf, FromInt(30)) THEN 22
        ELSE 23

(***************************************************************************)
(* util.rs, damage.rs, creature.rs                                         *)
(***************************************************************************)
\* util::clamp_isize
clamp_isize(i) == IF i < 0 THEN 0 ELSE i

\* enum DamageKind
DamageKind ==
    {"Acid", "Bludgeoning", "Cold", "Fire", "Force", "Lightning", "Necrotic",
     "Piercing", "Poison", "Psychic", "Radiant", "Slashing", "Thunder"}

\* struct Damage
Damage(u, k) == [amount |-> u, kind |-> k]

\* struct BaseCreature (the fields the modelled functions read)
BaseCreature(ascores, size, hit_dice, immunities, resistances, vulnerabilities) ==
    [ascores |-> ascores, size |-> size, hit_dice |-> hit_dice,
     immunities |-> immunities, resistances |-> resistances,
     vulnerabilities |-> vulnerabilities]

\* BaseCreature::with_cr
with_cr(base, cr) == [base |-> base, cr |-> cr]

\* a mutant of damage_factor: immunity is looked at last, and only when the
\* kind is neither resisted nor a vulnerability
damage_factor_immune_last(base, k) ==
    LET f1 == IF k \in base.resistances THEN RMul(FromInt(1), Rat(1, 2)) ELSE FromInt(1)
        f2 == IF k \in base.vulnerabilities THEN RMul(f1, FromInt(2)) ELSE f1
    IN  IF k \in base.immunities /\ k \notin base.resistances \cup base.vulnerabilities
        THEN FromInt(0)
        ELSE f2

\* BaseCreature::damage_factor
damage_factor(base, k) ==
    IF k \in base.immunities
    THEN FromInt(0)
    ELSE LET f1 == IF k \in base.resistances
                   THEN RMul(FromInt(1), Rat(1, 2))
                   ELSE FromInt(1)
         IN  IF k \in base.vulnerabilities THEN RMul(f1, FromInt(2)) ELSE f1

\* BaseCreature::mods
mods(base) == AMods_from(base.ascores)

\* a mutant of expected_hit_points: the cast keeps the sign
expected_hit_points_signed(base) ==
    AsIsize(expected(Times(base.hit_dice,
                           Plus(Die(hit_die(base.size)),
                                Const(mods(base).con)))))

\* BaseCreature::expected_hit_points
expected_hit_points(base) ==
    AsUsize(expected(Times(base.hit_dice,
                           Plus(Die(hit_die(base.size)),
                                Const(mods(base).con)))))

\* Creature::damage_factor
Creature_damage_factor(c, k) == damage_factor(c.base, k)

\* Creature::mods
Creature_mods(c) == mods(c.base)

\* Creature::prof_bonus
prof_bonus(c) == ProfBonus_from_CR(c.cr)

(***************************************************************************)
(* action.rs                                                               *)
(***************************************************************************)
\* struct DamageRoll
DamageRoll(ex, k) == [ex |-> ex, kind |-> k]

\* Option
None == [tag |-> "None"]
Some(x) == [tag |-> "Some", v |-> x]

\* enum SavingDC
Granted(ab) == [tag |-> "Granted", ab |-> ab]
Exactly(n) == [tag |-> "Exactly", n |-> n]

\* SavingDC::def_class
def_class(sdc, m, prof) ==
    IF sdc.tag = "Granted"
    THEN clamp_isize(8 + prof + Abilities_index(m, sdc.ab))
    ELSE sdc.n

\* enum SaveKind
SaveAbility(ab) == [tag |-> "Ability", ab |-> ab]
Death == [tag |-> "Death"]

\* SaveKind::modifier
SaveKind_modifier(sk, m) ==
    IF sk.tag = "Ability" THEN Abilities_index(m, sk.ab) ELSE 0

\* enum SaveEffect
ReducesDamage(amt) == [tag |-> "ReducesDamage", amt |-> amt]

\* struct Save
Save(sk, sdc, sef) == [sk |-> sk, sdc |-> sdc, sef |-> sef]

\* impl Default for Attack
Attack_default ==
    [kind |-> "Melee", save |-> None, target |-> Exactly(1), dmg_rolls |-> <<>>,
     dmg_bonus |-> 0, to_hit_bonus |-> 0, finesse |-> FALSE, proficient |-> FALSE,
     range |-> 5]

\* enum Target: Exactly(usize) as above, or Area(Area)
Area(a) == [tag |-> "Area", a |-> a]

\* enum AttackKind
AttackKind == {"Melee", "Ranged", "Special"}

\* AttackKind::modifier
AttackKind_modifier(k, m) ==
    CASE k = "Melee" -> m.str
      [] k = "Ranged" -> m.dex
      [] k = "Special" -> 0

\* std::cmp::max
max(a, b) == IF a >= b THEN a ELSE b

\* a mutant of Attack_modifier: finesse is not looked at
Attack_modifier_by_kind(atk, m, prof) ==
    atk.to_hit_bonus
        + (IF atk.proficient THEN prof ELSE 0)
        + AttackKind_modifier(atk.kind, m)

\* Attack::modifier
Attack_modifier(atk, m, prof) ==
    atk.to_hit_bonus
        + (IF atk.proficient THEN prof ELSE 0)
        + (IF atk.kind = "Special"
           THEN 0
           ELSE IF atk.finesse
                THEN max(AttackKind_modifier("Melee", m), AttackKind_modifier("Ranged", m))
                ELSE AttackKind_modifier(atk.kind, m))

(***************************************************************************)
(* space.rs                                                                *)
(***************************************************************************)
\* enum Area, lengths in feet
Line(length, width) == [shape |-> "Line", length |-> FromInt(length), width |-> FromInt(width)]
Cylinder(height, radius) ==
    [shape |-> "Cylinder", height |-> FromInt(height), radius |-> FromInt(radius)]
Sphere(radius) == [shape |-> "Sphere", radius |-> FromInt(radius)]
Cone(length) == [shape |-> "Cone", length |-> FromInt(length)]
Cube(length) == [shape |-> "Cube", length |-> FromInt(length)]

\* std::f64::consts::PI and 0.5 * 3.0f64.sqrt(), to seven digits: the areas
\* the model builds give the same target count for every value that close
PI == Rat(355, 113)
HalfSqrt3 == Rat(1351, 1560)

\* Area::floor_area
floor_area(a) ==
    CASE a.shape = "Line" -> RMul(a.length, a.width)
      [] a.shape = "Cylinder" -> RMul(RMul(PI, a.radius), a.radius)
      [] a.shape = "Sphere" -> RMul(RMul(PI, a.radius), a.radius)
      [] a.shape = "Cone" -> RMul(RMul(HalfSqrt3, a.length), a.length)
      [] a.shape = "Cube" -> RMul(a.length, a.length)

(***************************************************************************)
(* combat.rs                                                               *)
(***************************************************************************)
\* enum AreaEffectDensity: Exactly(usize) as above, or Density(f64)
Density(f) == [tag |-> "Density", f |-> f]

\* impl Default for CombatSettings
CombatSettings_default ==
    [effect_density |-> Exactly(2), recharge_model |-> "Never", rounds |-> 3]

\* struct CombatPair
CombatPair(attacker, defenders, settings) ==
    [attacker |-> attacker, defenders |-> defenders, settings |-> settings]

\* CombatPair::expected_targets
expected_targets(pair, atk) ==
    IF atk.target.tag = "Exactly"
    THEN atk.target.n
    ELSE IF pair.settings.effect_density.tag = "Exactly"
         THEN pair.settings.effect_density.n
         ELSE AsUsize(RMul(pair.settings.effect_density.f, floor_area(atk.target.a)))

\* a mutant of expected_single_damage_rolls: the bonus goes to every entry
expected_single_damage_rolls_every(pair, atk) ==
    [idx \in 1 .. Len(atk.dmg_rolls) |->
        LET dr == atk.dmg_rolls[idx]
        IN  Damage(
                clamp_isize(
                    AsIsize(RMax(FromInt(0),
                                 RMul(expected(dr.ex),
                                      Creature_damage_factor(pair.defenders, dr.kind))))
                    + atk.dmg_bonus),
                dr.kind)]

\* CombatPair::expected_single_damage_rolls
expected_single_damage_rolls(pair, atk) ==
    [idx \in 1 .. Len(atk.dmg_rolls) |->
        LET dr == atk.dmg_rolls[idx]
        IN  Damage(
                clamp_isize(
                    AsIsize(RMax(FromInt(0),
                                 RMul(expected(dr.ex),
                                      Creature_damage_factor(pair.defenders, dr.kind))))
                    + (IF idx = 1 THEN atk.dmg_bonus ELSE 0)),
                dr.kind)]

RECURSIVE SumAmounts(_, _)
\* the .sum() of combat.rs:94 over the amounts ds[1..k]
SumAmounts(ds, k) == IF k = 0 THEN 0 ELSE SumAmounts(ds, k - 1) + ds[k].amount

\* CombatPair::expected_single_damage_sum
expected_single_damage_sum(pair, atk) ==
    LET ds == expected_single_damage_rolls(pair, atk)
    IN  SumAmounts(ds, Len(ds))

\* Where the f64 evaluation of combat.rs:105 ends below the exact value: with
\* amt = 0.0 the result is (1.0 - p_pass) * dmg, and 1.0 - (1.0 - 0.1) is
\* 0.09999999999999998, 1.0 - (1.0 - 0.2) is 0.19999999999999996, so that
\* a product that is an integer exactly falls just short of it in f64.  For
\* |dmg| < 60 and amt in {0, 1/2, 1} these are the only inputs on which the
\* f64 result and the exact result truncate differently (IEEE-754 double
\* arithmetic, round to nearest even).
F64FallsShort(p_pass, dmg, amt) ==
    /\ REq(amt, FromInt(0))
    /\ dmg # 0
    /\ \/ REq(p_pass, Rat(9, 10)) /\ dmg % 10 = 0
       \/ REq(p_pass, Rat(4, 5)) /\ dmg % 5 = 0

\* combat.rs:105: (p_pass * ((dmg as f64) * amt) + (1.0 - p_pass) * (dmg as f64)) as isize
SaveMix(p_pass, dmg, amt) ==
    LET exact == AsIsize(RAdd(RMul(p_pass, RMul(FromInt(dmg), amt)),
                              RMul(RSub(FromInt(1), p_pass), FromInt(dmg))))
    IN  IF F64FallsShort(p_pass, dmg, amt)
        THEN (IF dmg > 0 THEN exact - 1 ELSE exact + 1)
        ELSE exact

\* a mutant of expected_single_damage: the save is decided by the first
\* damage roll's own distribution
expected_single_damage_by_distribution(pair, atk) ==
    LET dmg == expected_single_damage_sum(pair, atk) + atk.dmg_bonus
    IN  IF atk.save.tag = "Some"
        THEN LET sv == atk.save.v
                 dc == def_class(sv.sdc, Creature_mods(pair.attacker), prof_bonus(pair.attacker))
                 sm == SaveKind_modifier(sv.sk, Creature_mods(pair.defenders))
                 p_pass == prob_pass(IF Len(atk.dmg_rolls) > 0 THEN atk.dmg_rolls[1].ex
                                                               ELSE Die(20),
                                     dc - sm)
             IN  IF p_pass.ok
                 THEN OkInt(clamp_isize(SaveMix(p_pass.val, dmg, sv.sef.amt)))
                 ELSE p_pass
        ELSE OkInt(clamp_isize(dmg))

\* a mutant of expected_single_damage: the flat bonus is not added again
expected_single_damage_once(pair, atk) ==
    LET dmg == expected_single_damage_sum(pair, atk)
    IN  IF atk.save.tag = "Some"
        THEN LET sv == atk.save.v
                 dc == def_class(sv.sdc, Creature_mods(pair.attacker), prof_bonus(pair.attacker))
                 sm == SaveKind_modifier(sv.sk, Creature_mods(pair.defenders))
                 p_pass == prob_pass(Die(20), dc - sm)
             IN  IF p_pass.ok
                 THEN OkInt(clamp_isize(SaveMix(p_pass.val, dmg, sv.sef.amt)))
                 ELSE p_pass
        ELSE OkInt(clamp_isize(dmg))

\* CombatPair::expected_single_damage
expected_single_damage(pair, atk) ==
    LET dmg == expected_single_damage_sum(pair, atk) + atk.dmg_bonus
    IN  IF atk.save.tag = "Some"
        THEN LET sv == atk.save.v
                 dc == def_class(sv.sdc, Creature_mods(pair.attacker), prof_bonus(pair.attacker))
                 sm == SaveKind_modifier(sv.sk, Creature_mods(pair.defenders))
                 p_pass == prob_pass(Die(20), dc - sm)
             IN  IF p_pass.ok
                 THEN OkInt(clamp_isize(SaveMix(p_pass.val, dmg, sv.sef.amt)))
                 ELSE p_pass
        ELSE OkInt(clamp_isize(dmg))

\* CombatPair::expected_damage
expected_damage(pair, atk) ==
    LET single == expected_single_damage(pair, atk)
    IN  IF single.ok THEN OkInt(single.int * expected_targets(pair, atk)) ELSE single

\* CombatPair::attack_modifier
attack_modifier(pair, atk) ==
    Attack_modifier(atk, Creature_mods(pair.attacker), prof_bonus(pair.attacker))

\* CombatPair::expected_hit_ac
expected_hit_ac(pair, atk) ==
    clamp_isize(AsIsize(RAdd(expected(Die(20)), FromInt(attack_modifier(pair, atk)))))

(***************************************************************************)
(* The expressions the client builds.                                      *)
(***************************************************************************)
DiceOf(s) == {Die(n) : n \in 1 .. s}
Leaves == DiceOf(MaxSides) \cup {Const(v) : v \in -MaxNegConst .. MaxConst}
SmallLeaves == DiceOf(MaxNest) \cup {Const(v) : v \in 0 .. MaxNest}
Compound ==
    {Times(k, e) : k \in 0 .. MaxCount, e \in Leaves}
        \cup {Plus(a, b) : a \in Leaves, b \in Leaves}
Nested ==
    {Times(k, e) : k \in 0 .. MaxNest, e \in Compound}
        \cup {Plus(a, b) : a \in Compound, b \in SmallLeaves}
Exprs == Leaves \cup Compound \cup Nested
Queries == -MaxQuery .. (MaxSides + MaxQuery)

RollLeaves == DiceOf(RollSides) \cup {Const(v) : v \in -MaxNegConst .. MaxConst}
RollExprs ==
    RollLeaves
        \cup {Times(k, e) : k \in 0 .. RollCount, e \in RollLeaves}
        \cup {Plus(a, b) : a \in RollLeaves, b \in RollLeaves}
        \cup {Times(k, Plus(a, b)) : k \in 0 .. RollCount, a \in SmallLeaves, b \in SmallLeaves}
        \cup {Plus(Times(k, a), b) : k \in 0 .. RollCount, a \in SmallLeaves, b \in SmallLeaves}

\* impl IndexMut<Ability> for Abilities, as the client sets one score
WithScore(a, idx, s) ==
    CASE idx = "Str" -> [a EXCEPT !.str = s]
      [] idx = "Dex" -> [a EXCEPT !.dex = s]
      [] idx = "Con" -> [a EXCEPT !.con = s]
      [] idx = "Int" -> [a EXCEPT !.int = s]
      [] idx = "Wis" -> [a EXCEPT !.wis = s]
      [] idx = "Cha" -> [a EXCEPT !.cha = s]

\* score records: one ability takes every score, a second one an odd score
\* below or above 10, the others are the default 10
AScoreSet ==
    {WithScore(WithScore(AScores_default, b, t), a, s) :
        a \in Ability, b \in Ability, s \in 0 .. MaxScore, t \in {7, 15}}

\* resistance profiles: each of the three sets is a subset of ResistPool
ResistPool == {"Fire", "Poison"}
Profiles ==
    {BaseCreature(AScores_default, "Medium", 1, imm, res, vul) :
        imm \in SUBSET ResistPool, res \in SUBSET ResistPool, vul \in SUBSET ResistPool}

\* the f64 values given to CR::from: the multiples of 1/40 (0.125, 0.3, 0.75
\* and 29.5 among them) in [-1, MaxReal]
RealDen == 8 * 5
Reals == {Rat(n, RealDen) : n \in -RealDen .. MaxReal * RealDen}

\* the fights of the combat engine
AttackKinds == {"Slashing", "Fire"}
DamageExprs == {Times(2, Die(6)), Die(4), Const(-2)}
DamageRolls == {DamageRoll(ex, k) : ex \in DamageExprs, k \in AttackKinds}
RollLists(n) == UNION {[1 .. m -> DamageRolls] : m \in 0 .. n}
SaveRollLists ==
    {<<>>, <<DamageRoll(Times(2, Die(6)), "Slashing")>>, <<DamageRoll(Die(4), "Fire")>>}
Bonuses == -MaxBonus .. MaxBonus
Fractions == {Rat(0, 1), Rat(1, 2), Rat(1, 1)}

FireProfiles ==
    {BaseCreature(AScores_default, "Medium", 1, imm, res, vul) :
        imm \in SUBSET {"Fire"}, res \in SUBSET {"Fire"}, vul \in SUBSET {"Fire"}}
Plain == BaseCreature(AScores_default, "Medium", 1, {}, {}, {})
WithAbility(base, ab, s) == [base EXCEPT !.ascores = WithScore(base.ascores, ab, s)]

Fight(attacker, defenders, atk) ==
    [pair |-> CombatPair(attacker, defenders, CombatSettings_default), atk |-> atk]

\* attacks without a saving throw, against every resistance profile for Fire
PlainFights ==
    {Fight(with_cr(Plain, "CR2"), with_cr(d, "CR1"),
           [Attack_default EXCEPT !.dmg_rolls = rolls, !.dmg_bonus = bonus]) :
        d \in FireProfiles, rolls \in RollLists(MaxRolls), bonus \in Bonuses}

\* attacks with a saving throw against a literal DC
ExactSaveFights ==
    {Fight(with_cr(Plain, "CR2"), with_cr(WithAbility(Plain, "Dex", dex), "CR1"),
           [Attack_default EXCEPT !.dmg_rolls = rolls, !.dmg_bonus = bonus,
                                  !.save = Some(Save(sk, Exactly(dc), ReducesDamage(amt)))]) :
        dex \in {7, 10, 14}, rolls \in SaveRollLists, bonus \in Bonuses,
        sk \in {SaveAbility("Dex"), Death}, dc \in 0 .. MaxDC, amt \in Fractions}

\* attacks with a saving throw whose DC the attacker's Constitution grants
GrantedSaveFights ==
    {Fight(with_cr(WithAbility(Plain, "Con", con), cr),
           with_cr(WithAbility(Plain, "Dex", dex), "CR1"),
           [Attack_default EXCEPT !.dmg_rolls = rolls, !.dmg_bonus = bonus,
                                  !.save = Some(Save(sk, Granted("Con"), ReducesDamage(amt)))]) :
        con \in {3, 10, 16}, cr \in {"CR1", "CR9"}, dex \in {7, 10, 14},
        rolls \in SaveRollLists, bonus \in Bonuses,
        sk \in {SaveAbility("Dex"), Death}, amt \in Fractions}

\* creatures of every size, with up to MaxHitDice hit dice and every
\* Constitution score
HitPointCreatures ==
    {BaseCreature(WithScore(AScores_default, "Con", con), size, h, {}, {}, {}) :
        con \in 0 .. MaxScore, size \in Size, h \in 0 .. MaxHitDice}

\* attacks of every kind, with and without finesse and proficiency
ToHitAttacks ==
    {[Attack_default EXCEPT !.kind = k, !.finesse = fin, !.proficient = pro,
                            !.to_hit_bonus = b] :
        k \in AttackKind, fin \in BOOLEAN, pro \in BOOLEAN, b \in Bonuses}

\* attackers whose Strength and Dexterity differ either way
ToHitScores == {1, 7, 10, 13, 18}
ToHitBases ==
    {WithAbility(WithAbility(Plain, "Str", str), "Dex", dex) :
        str \in ToHitScores, dex \in ToHitScores}

\* the proficiency bonuses the CR table gives
ProfBonuses == {ProfBonus_from_CR(cr) : cr \in CR}

\* targets: up to MaxTargets creatures, or an area of each shape
Targets ==
    {Exactly(n) : n \in 0 .. MaxTargets}
        \cup {Area(a) : a \in {Line(30, 5), Cylinder(40, 10), Sphere(20), Cone(15), Cone(60),
                                Cube(15)}}

\* settings: the default, and one target per 5 ft square
SettingsSet ==
    {CombatSettings_default,
     [CombatSettings_default EXCEPT !.effect_density = Density(Rat(1, 25))]}

\* damage rolls of compound expressions
CompoundRollLists ==
    {<<>>,
     <<DamageRoll(Times(2, Die(6)), "Slashing")>>,
     <<DamageRoll(Plus(Die(8), Const(1)), "Fire"),
       DamageRoll(Times(1, Plus(Die(4), Die(4))), "Slashing")>>}

Saves ==
    {None,
     Some(Save(SaveAbility("Dex"), Exactly(13), ReducesDamage(Rat(1, 2)))),
     Some(Save(Death, Granted("Con"), ReducesDamage(Rat(0, 1))))}

\* fights over every target, setting, save and compound damage roll
AreaFights ==
    {[pair |-> CombatPair(with_cr(Plain, "CR2"), with_cr(d, "CR1"), st),
      atk |-> [Attack_default EXCEPT !.target = tg, !.dmg_rolls = rolls, !.save = sv,
                                     !.dmg_bonus = bonus, !.kind = k]] :
        d \in FireProfiles, st \in SettingsSet, tg \in Targets, rolls \in CompoundRollLists,
        sv \in Saves, bonus \in {-1, 0, MaxBonus}, k \in {"Melee", "Special"}}

Fights == PlainFights \cup ExactSaveFights \cup GrantedSaveFights \cup AreaFights

(***************************************************************************)
(* The client and the calls.                                               *)
(***************************************************************************)
NoCall == [op |-> "none"]
Idle == call = NoCall

Init == call = NoCall /\ ret = Nothing

CallExpected ==
    /\ Idle
    /\ \E e \in Exprs :
          /\ call' = [op |-> "expected", expr |-> e]
          /\ ret' = Ok(expected(e))

CallCumProb ==
    /\ Idle
    /\ \E e \in Leaves \cup Compound, i \in Queries :
          /\ call' = [op |-> "cum_prob", expr |-> e, i |-> i]
          /\ ret' = cum_prob(e, i)

CallProbPass ==
    /\ Idle
    /\ \E e \in Leaves \cup Compound, i \in Queries :
          /\ call' = [op |-> "prob_pass", expr |-> e, i |-> i]
          /\ ret' = prob_pass(e, i)

\* DiceExpr::roll followed by DiceRoll::value and DiceRoll::expr of the result
CallRoll ==
    /\ Idle
    /\ \E e \in RollExprs :
          \E r \in roll(e) :
              /\ call' = [op |-> "roll", expr |-> e]
              /\ ret' = Ok([roll |-> r, value |-> value(r), expr |-> expr(r)])

\* AMods::from(&AScores)
CallMods ==
    /\ Idle
    /\ \E scores \in AScoreSet :
          /\ call' = [op |-> "mods", ascores |-> scores]
          /\ ret' = Ok(AMods_from(scores))

CallDamageFactor ==
    /\ Idle
    /\ \E base \in Profiles, k \in DamageKind :
          /\ call' = [op |-> "damage_factor", base |-> base, k |-> k]
          /\ ret' = Ok(damage_factor(base, k))

\* AC::from(CR), ProfBonus::from(CR), CR::to_hit_bonus, CR::save_dc
CallCRTable ==
    /\ Idle
    /\ \E cr \in CR :
          \/ /\ call' = [op |-> "AC_from_CR", cr |-> cr]
             /\ ret' = OkInt(AC_from_CR(cr))
          \/ /\ call' = [op |-> "ProfBonus_from_CR", cr |-> cr]
             /\ ret' = OkInt(ProfBonus_from_CR(cr))
          \/ /\ call' = [op |-> "to_hit_bonus", cr |-> cr]
             /\ ret' = OkInt(to_hit_bonus(cr))
          \/ /\ call' = [op |-> "save_dc", cr |-> cr]
             /\ ret' = OkInt(save_dc(cr))

CallCRFromHP ==
    /\ Idle
    /\ \E hp \in 0 .. MaxHP :
          /\ call' = [op |-> "CR_from_HP", hp |-> hp]
          /\ ret' = OkCR(CR_from_HP(hp))

CallForExpectedDamage ==
    /\ Idle
    /\ \E dmg \in 0 .. MaxDamage :
          /\ call' = [op |-> "for_expected_damage", dmg |-> dmg]
          /\ ret' = OkCR(for_expected_damage(dmg))

CallCRIntoF64 ==
    /\ Idle
    /\ \E cr \in CR :
          /\ call' = [op |-> "CR_into_f64", cr |-> cr]
          /\ ret' = Ok(CR_into_f64(cr))

CallCRFromF64 ==
    /\ Idle
    /\ \E x \in Reals :
          /\ call' = [op |-> "CR_from_f64", x |-> x]
          /\ ret' = OkCR(CR_from_f64(x))

CallExpectedSingleDamageRolls ==
    /\ Idle
    /\ \E f \in PlainFights :
          /\ call' = [op |-> "expected_single_damage_rolls", pair |-> f.pair, atk |-> f.atk]
          /\ ret' = OkVec(expected_single_damage_rolls(f.pair, f.atk))

CallExpectedSingleDamageSum ==
    /\ Idle
    /\ \E f \in PlainFights :
          /\ call' = [op |-> "expected_single_damage_sum", pair |-> f.pair, atk |-> f.atk]
          /\ ret' = OkInt(expected_single_damage_sum(f.pair, f.atk))

CallExpectedSingleDamage ==
    /\ Idle
    /\ \E f \in Fights :
          /\ call' = [op |-> "expected_single_damage", pair |-> f.pair, atk |-> f.atk]
          /\ ret' = expected_single_damage(f.pair, f.atk)

CallExpectedHitPoints ==
    /\ Idle
    /\ \E base \in HitPointCreatures :
        /\ call' = [op |-> "expected_hit_points", base |-> base]
        /\ ret' = OkInt(expected_hit_points(base))

CallAttackModifier ==
    /\ Idle
    /\ \E atk \in ToHitAttacks, base \in ToHitBases, prof \in ProfBonuses :
        /\ call' = [op |-> "Attack_modifier", atk |-> atk, mods |-> mods(base), prof |-> prof]
        /\ ret' = OkInt(Attack_modifier(atk, mods(base), prof))

CallPairAttackModifier ==
    /\ Idle
    /\ \E atk \in ToHitAttacks, base \in ToHitBases, cr \in CR :
        /\ call' = [op |-> "attack_modifier", atk |-> atk,
                     pair |-> CombatPair(with_cr(base, cr), with_cr(Plain, "CR1"),
                                         CombatSettings_default)]
        /\ ret' = OkInt(attack_modifier(call'.pair, atk))

CallExpectedTargets ==
    /\ Idle
    /\ \E f \in AreaFights :
        /\ call' = [op |-> "expected_targets", pair |-> f.pair, atk |-> f.atk]
        /\ ret' = OkInt(expected_targets(f.pair, f.atk))

CallExpectedDamage ==
    /\ Idle
    /\ \E f \in AreaFights :
        /\ call' = [op |-> "expected_damage", pair |-> f.pair, atk |-> f.atk]
        /\ ret' = expected_damage(f.pair, f.atk)

CallExpectedHitAC ==
    /\ Idle
    /\ \E f \in AreaFights :
        /\ call' = [op |-> "expected_hit_ac", pair |-> f.pair, atk |-> f.atk]
        /\ ret' = OkInt(expected_hit_ac(f.pair, f.atk))

Return ==
    /\ ~Idle
    /\ call' = NoCall
    /\ ret' = Nothing

Next ==
    \/ CallExpected
    \/ CallCumProb
    \/ CallProbPass
    \/ CallRoll
    \/ CallMods
    \/ CallDamageFactor
    \/ CallCRTable
    \/ CallCRFromHP
    \/ CallForExpectedDamage
    \/ CallCRIntoF64
    \/ CallCRFromF64
    \/ CallExpectedSingleDamageRolls
    \/ CallExpectedSingleDamageSum
    \/ CallExpectedSingleDamage
    \/ CallExpectedHitPoints
    \/ CallAttackModifier
    \/ CallPairAttackModifier
    \/ CallExpectedTargets
    \/ CallExpectedDamage
    \/ CallExpectedHitAC
    \/ Return

Spec == Init /\ [][Next]_vars

(***************************************************************************)
(* Claims about the dice algebra.                                          *)
(***************************************************************************)
RECURSIVE ClosedFormTwice(_)
\* twice the expectation the specification defines, an integer:
\* Die(n) = (1+n)/2, Scale(k,t) = k * E(t), Sum(a,b) = E(a) + E(b), Constant(v) = v
ClosedFormTwice(e) ==
    CASE e.tag = "Die" -> 1 + e.sides
      [] e.tag = "Times" -> e.n * ClosedFormTwice(e.ex)
      [] e.tag = "Plus" -> ClosedFormTwice(e.xa) + ClosedFormTwice(e.xb)
      [] e.tag = "Const" -> 2 * e.v

RECURSIVE NonNegative(_)
\* every constant of e is non-negative (every die has a positive face count)
NonNegative(e) ==
    CASE e.tag = "Die" -> e.sides >= 1
      [] e.tag = "Times" -> NonNegative(e.ex)
      [] e.tag = "Plus" -> NonNegative(e.xa) /\ NonNegative(e.xb)
      [] e.tag = "Const" -> e.v >= 0

RECURSIVE SumByValue(_, _)
\* the sum over the values vs of the value times the rolls of rs worth it
SumByValue(vs, rs) ==
    IF vs = {} THEN 0
    ELSE LET v == CHOOSE x \in vs : TRUE
         IN  v * Cardinality({r \in rs : value(r) = v}) + SumByValue(vs \ {v}, rs)

\* the sum of value(r) over a set of rolls
SumOfValues(rs) == SumByValue({value(r) : r \in rs}, rs)

\* C3: expected(e) is the closed-form expectation: Die(n) = (1+n)/2,
\* Scale(k,t) = k * expected(t), Sum(a,b) = expected(a) + expected(b),
\* Constant(v) = v; so expected(Scale(k, Die(n))) = k(n+1)/2 (Scale(8, Die(6)) = 28,
\* Scale(0, t) = 0), expected(Sum(Die(6), Constant(3))) = 6.5, expected(e) >= 0
\* when no constant is negative; and it is the mean of the value over the
\* equally likely rolls of e (checked on the expressions the model rolls).
C3_ExpectedClosedForm ==
    call.op = "expected" =>
        LET e == call.expr
            x == ret.val
        IN  /\ ret.ok
            /\ REq(x, Rat(ClosedFormTwice(e), 2))
            /\ (e.tag = "Times" /\ e.ex.tag = "Die"
                    => 2 * x.n = e.n * (e.ex.sides + 1) * x.d)
            /\ (e = Times(8, Die(6)) => REq(x, FromInt(28)))
            /\ (e.tag = "Times" /\ e.n = 0 => REq(x, FromInt(0)))
            /\ (e = Plus(Die(6), Const(3)) => REq(x, Rat(13, 2)))
            /\ (NonNegative(e) => RLe(FromInt(0), x))
            /\ (e \in RollExprs
                    => x.n * Cardinality(roll(e)) = SumOfValues(roll(e)) * x.d)

C3_Witness ==
    /\ call.op = "expected"
    /\ call.expr = Times(8, Die(6))
    /\ REq(ret.val, FromInt(28))

\* the distribution function the specification defines for a single term
SpecCDF(e, i) ==
    IF e.tag = "Die"
    THEN IF i < 1 THEN Rat(0, 1) ELSE IF i >= e.sides THEN Rat(1, 1) ELSE Rat(i, e.sides)
    ELSE IF i < e.v THEN Rat(0, 1) ELSE Rat(1, 1)

SingleTerm(e) == e.tag \in {"Die", "Const"}

\* C4: on a single term, cum_prob(e, i) is the exact distribution function for
\* every integer i (Die: 0 below 1, 1 from sides on, i/sides between; Const: 0
\* below the value, 1 from it on), lies in [0,1] and does not decrease in i;
\* prob_pass(e, t) = 1 - cum_prob(e, t - 1); cum_prob(Die(20), 0) = 0,
\* (Die(20), 10) = 1/2, (Die(20), 20) = 1, prob_pass(Die(20), 11) = 1/2.
C4_CumProbExact ==
    /\ (call.op = "cum_prob" /\ SingleTerm(call.expr) =>
            LET e == call.expr
                i == call.i
            IN  /\ ret.ok
                /\ REq(ret.val, SpecCDF(e, i))
                /\ RLe(FromInt(0), ret.val) /\ RLe(ret.val, FromInt(1))
                /\ RLe(ret.val, cum_prob(e, i + 1).val)
                /\ (e = Die(20) /\ i = 0 => REq(ret.val, FromInt(0)))
                /\ (e = Die(20) /\ i = 10 => REq(ret.val, Rat(1, 2)))
                /\ (e = Die(20) /\ i = 20 => REq(ret.val, FromInt(1))))
    /\ (call.op = "prob_pass" /\ SingleTerm(call.expr) =>
            LET e == call.expr
                t == call.i
            IN  /\ ret.ok
                /\ REq(ret.val, RSub(FromInt(1), SpecCDF(e, t - 1)))
                /\ (e = Die(20) /\ t = 11 => REq(ret.val, Rat(1, 2))))

C4_Witness ==
    /\ call.op = "prob_pass"
    /\ call.expr = Die(20)
    /\ call.i = 11
    /\ ret.ok
    /\ REq(ret.val, Rat(1, 2))

\* C5: on every expression whose root is Scale or Sum (Sum(Die(6), Die(6)),
\* Scale(1, Die(6)), Scale(0, t), ...) cum_prob fails with the
\* unsupported-distribution condition for every i, and so does prob_pass for
\* every threshold: no probability is returned.
C5_CompoundUnsupported ==
    (call.op \in {"cum_prob", "prob_pass"} /\ call.expr.tag \in {"Times", "Plus"})
        => (~ret.ok /\ ret = Unimplemented)

C5_Witness ==
    /\ call.op = "cum_prob"
    /\ call.expr = Plus(Die(6), Die(6))
    /\ ~ret.ok

RECURSIVE MinValue(_)
\* the least value of e's support
MinValue(e) ==
    CASE e.tag = "Die" -> 1
      [] e.tag = "Times" -> e.n * MinValue(e.ex)
      [] e.tag = "Plus" -> MinValue(e.xa) + MinValue(e.xb)
      [] e.tag = "Const" -> e.v

RECURSIVE MaxValue(_)
\* the greatest value of e's support
MaxValue(e) ==
    CASE e.tag = "Die" -> e.sides
      [] e.tag = "Times" -> e.n * MaxValue(e.ex)
      [] e.tag = "Plus" -> MaxValue(e.xa) + MaxValue(e.xb)
      [] e.tag = "Const" -> e.v

\* C6: whatever the randomness, the value of a roll of e is an integer in
\* [min(e), max(e)]; the roll of Scale(k, t) holds exactly k sub-rolls, so
\* Scale(0, t) is worth 0 and Scale(2, Die(8)) lies in 2..16; every value
\* 1..n of a Die(n) can be rolled.
C6_RollWithinSupport ==
    call.op = "roll" =>
        LET e == call.expr
            r == ret.val.roll
            v == ret.val.value
        IN  /\ v \in Int
            /\ MinValue(e) <= v /\ v <= MaxValue(e)
            /\ (e.tag = "Times" => Len(r.drs) = e.n)
            /\ (e.tag = "Times" /\ e.n = 0 => v = 0)
            /\ (e = Times(2, Die(8)) => v \in 2 .. 16)
            /\ (e.tag = "Die" => {value(x) : x \in roll(e)} = 1 .. e.sides)

C6_Witness ==
    /\ call.op = "roll"
    /\ call.expr = Times(2, Die(8))
    /\ ret.val.value = 16

(***************************************************************************)
(* Claims about ability modifiers, resistances and the CR tables.          *)
(***************************************************************************)
\* C2: for every ability score s (below 10 and odd ones too) the modifier
\* is floor((s - 10) / 2): 10 gives 0, 15 gives 2, 9 gives -1, 7 gives -2;
\* the same map for each of the six abilities.
C2_ModifierIsFloor ==
    call.op = "mods" =>
        \A ab \in Ability :
            Abilities_index(ret.val, ab) = (Abilities_index(call.ascores, ab) - 10) \div 2

\* C7: damage_factor is defined for every defender and each of the 13 damage
\* kinds: 0 when the kind is in the immune set whatever else holds; otherwise
\* 1/2 when only resistant, 2 when only vulnerable, 1 when neither, and
\* 1/2 * 2 = 1 when both; always one of 0, 1/2, 1, 2.
C7_DamageFactor ==
    call.op = "damage_factor" =>
        LET k == call.k
            imm == k \in call.base.immunities
            res == k \in call.base.resistances
            vul == k \in call.base.vulnerabilities
            f == ret.val
        IN  /\ ret.ok
            /\ Cardinality(DamageKind) = 13
            /\ (imm => REq(f, FromInt(0)))
            /\ (~imm /\ res /\ ~vul => REq(f, Rat(1, 2)))
            /\ (~imm /\ ~res /\ vul => REq(f, FromInt(2)))
            /\ (~imm /\ ~res /\ ~vul => REq(f, FromInt(1)))
            /\ (~imm /\ res /\ vul => REq(f, FromInt(1)))
            /\ \E v \in {Rat(0, 1), Rat(1, 2), Rat(1, 1), Rat(2, 1)} : REq(f, v)

C7_Witness ==
    /\ call.op = "damage_factor"
    /\ call.k \in call.base.immunities
    /\ call.k \in call.base.resistances
    /\ call.k \in call.base.vulnerabilities
    /\ REq(ret.val, FromInt(0))

\* the position of a level in the CR order (1 for CR 0, 34 for CR 30)
LevelIndex(cr) == CHOOSE k \in DOMAIN CRLevels : CRLevels[k] = cr

\* the real value the specification gives the levels, in order:
\* 0, 0.125, 0.25, 0.5, 1, 2, ..., 30
SpecRealValue(cr) ==
    LET k == LevelIndex(cr)
    IN  CASE k = 1 -> Rat(0, 1)
          [] k = 2 -> Rat(1, 8)
          [] k = 3 -> Rat(1, 4)
          [] k = 4 -> Rat(1, 2)
          [] OTHER -> Rat(k - 4, 1)

\* a step table of the specification: rows of <<exclusive upper bound, output>>
\* and the output above the last bound
StepLookup(rows, last, x) ==
    LET hits == {k \in DOMAIN rows : RLt(x, FromInt(rows[k][1]))}
    IN  IF hits = {} THEN last
        ELSE rows[CHOOSE k \in hits : \A j \in hits : k <= j][2]

SpecProficiency == <<<<5, 2>>, <<9, 3>>, <<13, 4>>, <<17, 5>>, <<21, 6>>, <<25, 7>>, <<29, 8>>>>
SpecExpectedAC == <<<<4, 13>>, <<5, 14>>, <<8, 15>>, <<10, 16>>, <<13, 17>>, <<17, 18>>>>
SpecToHit ==
    <<<<3, 3>>, <<4, 4>>, <<5, 5>>, <<8, 6>>, <<11, 7>>, <<16, 8>>, <<17, 9>>,
      <<21, 10>>, <<24, 11>>, <<27, 12>>, <<30, 13>>>>
SpecSaveDC ==
    <<<<4, 13>>, <<5, 14>>, <<8, 15>>, <<11, 16>>, <<13, 17>>, <<17, 18>>, <<21, 19>>,
      <<24, 20>>, <<27, 21>>, <<30, 22>>>>

TableOps == {"AC_from_CR", "ProfBonus_from_CR", "to_hit_bonus", "save_dc"}

\* the table a call reads, as the code computes it
TableOf(op, cr) ==
    CASE op = "AC_from_CR" -> AC_from_CR(cr)
      [] op = "ProfBonus_from_CR" -> ProfBonus_from_CR(cr)
      [] op = "to_hit_bonus" -> to_hit_bonus(cr)
      [] op = "save_dc" -> save_dc(cr)

\* the four tables return the specification's outputs, selected by strict
\* less-than on the level's real value, and do not decrease along the CR order
TablesAsSpecified ==
    LET cr == call.cr
        x == SpecRealValue(cr)
    IN  /\ ret.ok
        /\ (call.op = "ProfBonus_from_CR" => ret.int = StepLookup(SpecProficiency, 9, x))
        /\ (call.op = "AC_from_CR" => ret.int = StepLookup(SpecExpectedAC, 19, x))
        /\ (call.op = "to_hit_bonus" => ret.int = StepLookup(SpecToHit, 14, x))
        /\ (call.op = "save_dc" => ret.int = StepLookup(SpecSaveDC, 23, x))
        /\ \A c2 \in CR :
              LevelIndex(cr) <= LevelIndex(c2) => ret.int <= TableOf(call.op, c2)
        /\ (call.op = "ProfBonus_from_CR" /\ cr = "CR4" => ret.int = 2)
        /\ (call.op = "ProfBonus_from_CR" /\ cr = "CR5" => ret.int = 3)
        /\ (call.op = "ProfBonus_from_CR" /\ cr = "CR30" => ret.int = 9)

\* C8 as stated: the CR scale has 31 levels, and for each of them the four
\* CR-indexed tables return the specification's outputs (strict less-than on
\* the real value), each table non-decreasing in CR.
C8_AsStated ==
    call.op \in TableOps => (Cardinality(CR) = 31 /\ TablesAsSpecified)

\* C8, amended: the CR scale has 34 levels (0, 1/8, 1/4, 1/2, 1..30), and for
\* each of them the four CR-indexed tables return the specification's outputs
\* (strict less-than on the real value), each table non-decreasing in CR;
\* proficiency_bonus(CR4) = 2, (CR5) = 3, (CR30) = 9.
C8_Tables ==
    call.op \in TableOps => (Cardinality(CR) = 34 /\ TablesAsSpecified)

C8_Witness ==
    /\ call.op = "ProfBonus_from_CR"
    /\ call.cr = "CR5"
    /\ ret.int = 3

\* the thresholds of the specification, inclusive upper bounds of the levels
\* 0, 1/8, 1/4, 1/2, 1 .. 29 in this order
HPThresholds ==
    <<6, 35, 49, 70, 85, 100, 115, 130, 145, 160, 175, 190, 205, 220, 235, 250, 265,
      280, 295, 310, 325, 340, 355, 400, 445, 490, 535, 580, 625, 670, 715, 760, 805>>
DamageThresholds ==
    <<1, 3, 5, 8, 14, 20, 26, 32, 38, 44, 50, 56, 62, 68, 74, 80, 86, 92, 98, 104, 110,
      116, 122, 140, 158, 176, 194, 212, 230, 248, 266, 284, 302>>

\* the level of x: the k-th level for x above the (k-1)-th threshold and at
\* most the k-th, CR 30 above the last threshold
StepLevel(thresholds, x) ==
    LET hits == {k \in DOMAIN thresholds : x <= thresholds[k]}
    IN  IF hits = {} THEN "CR30"
        ELSE CRLevels[CHOOSE k \in hits : \A j \in hits : k <= j]

\* the step functions are as specified, and every level is the image of an input
StepsAsSpecified ==
    /\ ret.ok
    /\ (call.op = "CR_from_HP" =>
            /\ Len(HPThresholds) = 33
            /\ ret.cr = StepLevel(HPThresholds, call.hp)
            /\ LevelIndex(ret.cr) <= LevelIndex(CR_from_HP(call.hp + 1))
            /\ (call.hp = 6 => ret.cr = "CR0")
            /\ (call.hp = 7 => ret.cr = "CROneEighth")
            /\ (call.hp > 805 => ret.cr = "CR30")
            /\ \A c \in CR : \E hp \in 0 .. MaxHP : CR_from_HP(hp) = c)
    /\ (call.op = "for_expected_damage" =>
            /\ Len(DamageThresholds) = 33
            /\ ret.cr = StepLevel(DamageThresholds, call.dmg)
            /\ LevelIndex(ret.cr) <= LevelIndex(for_expected_damage(call.dmg + 1))
            /\ (call.dmg > 302 => ret.cr = "CR30")
            /\ \A c \in CR : \E dmg \in 0 .. MaxDamage : for_expected_damage(dmg) = c)

StepOps == {"CR_from_HP", "for_expected_damage"}

\* C9 as stated: cr_from_hit_points and cr_from_expected_round_damage are
\* non-decreasing step functions giving the levels 0, 1/8, 1/4, 1/2, 1..29 to
\* the 33 thresholds as inclusive upper bounds and CR 30 above the last, and
\* every one of the 31 CR levels is the image of some input.
C9_AsStated ==
    call.op \in StepOps =>
        (StepsAsSpecified /\ Cardinality({CR_from_HP(hp) : hp \in 0 .. MaxHP}) = 31)

\* C9, amended: as stated, with "every one of the 34 CR levels is the image
\* of some input": cr_from_hit_points(6) = CR0, (7) = CR1/8, (900) = CR30.
C9_StepFunctions ==
    call.op \in StepOps =>
        /\ StepsAsSpecified
        /\ Cardinality({CR_from_HP(hp) : hp \in 0 .. MaxHP}) = 34
        /\ Cardinality({for_expected_damage(dmg) : dmg \in 0 .. MaxDamage}) = 34
        /\ (call.op = "CR_from_HP" /\ call.hp = 900 => ret.cr = "CR30")

C9_Witness ==
    /\ call.op = "CR_from_HP"
    /\ call.hp = 900
    /\ ret.cr = "CR30"

\* x lies in [0, 30]
InScale(x) == RLe(FromInt(0), x) /\ RLe(x, FromInt(30))

\* the least level whose real value is at least x (x <= 30)
NextLevel(x) ==
    CHOOSE c \in CR :
        /\ RLe(x, SpecRealValue(c))
        /\ \A c2 \in CR : RLe(x, SpecRealValue(c2)) => LevelIndex(c) <= LevelIndex(c2)

\* cr_from_real inverts real_value and rounds up between levels
InverseAsSpecified ==
    /\ ret.ok
    /\ (call.op = "CR_into_f64" =>
            /\ REq(ret.val, SpecRealValue(call.cr))
            /\ CR_from_f64(ret.val) = call.cr
            /\ \A c2 \in CR :
                  LevelIndex(call.cr) < LevelIndex(c2) => RLt(ret.val, CR_into_f64(c2)))
    /\ (call.op = "CR_from_f64" /\ InScale(call.x) =>
            /\ ret.cr = NextLevel(call.x)
            /\ RLe(call.x, CR_into_f64(ret.cr))
            /\ (REq(call.x, Rat(3, 10)) => ret.cr = "CROneHalf")
            /\ (REq(call.x, Rat(3, 4)) => ret.cr = "CR1")
            /\ (REq(call.x, Rat(59, 2)) => ret.cr = "CR30"))
    /\ (call.op = "CR_from_f64" =>
            LevelIndex(ret.cr)
                <= LevelIndex(CR_from_f64(RAdd(call.x, Rat(1, RealDen)))))

InverseOps == {"CR_into_f64", "CR_from_f64"}

\* C10 as stated: cr_from_real(real_value(c)) = c for each of the 31 CR
\* levels, cr_from_real(x) is the next level above an x in [0,30] that is not
\* a level value, real_value is strictly increasing and cr_from_real
\* non-decreasing.
C10_AsStated ==
    call.op \in InverseOps =>
        (InverseAsSpecified /\ Cardinality({c \in CR : CR_from_f64(CR_into_f64(c)) = c}) = 31)

\* C10, amended: as stated, for each of the 34 CR levels (0, 0.125, 0.25,
\* 0.5, 1..30): 0.3 -> CR1/2, 0.75 -> CR1, 29.5 -> CR30.
C10_InverseOfRealValue ==
    call.op \in InverseOps =>
        (InverseAsSpecified /\ Cardinality({c \in CR : CR_from_f64(CR_into_f64(c)) = c}) = 34)

C10_Witness ==
    /\ call.op = "CR_from_f64"
    /\ REq(call.x, Rat(3, 10))
    /\ ret.cr = "CROneHalf"

(***************************************************************************)
(* Claims about the combat engine.                                         *)
(***************************************************************************)
NoSave(atk) == atk.save.tag = "None"

\* C1: for an attack with no saving throw, expected_single_damage is the sum
\* of the per-roll list plus the flat bonus again, clamped at 0; the bonus is
\* so counted twice, once in the first entry of the list and once in the
\* total.  For one roll Scale(2, Die(6)) of Slashing with dmg_bonus = 3 against
\* a defender without resistances the list is [10] and the result is 13.
C1_FlatBonusTwice ==
    (call.op = "expected_single_damage" /\ NoSave(call.atk)) =>
        LET atk == call.atk
            rolls == expected_single_damage_rolls(call.pair, atk)
            bare == expected_single_damage_rolls(call.pair, [atk EXCEPT !.dmg_bonus = 0])
        IN  /\ ret.ok
            /\ ret.int = clamp_isize(SumAmounts(rolls, Len(rolls)) + atk.dmg_bonus)
            /\ (Len(rolls) >= 1 /\ atk.dmg_bonus >= 0
                    => ret.int = SumAmounts(bare, Len(bare)) + 2 * atk.dmg_bonus)
            /\ ((atk.dmg_rolls = <<DamageRoll(Times(2, Die(6)), "Slashing")>>
                    /\ atk.dmg_bonus = 3)
                 => (rolls = <<Damage(10, "Slashing")>> /\ ret.int = 13))

C1_Witness ==
    /\ call.op = "expected_single_damage"
    /\ NoSave(call.atk)
    /\ call.atk.dmg_rolls = <<DamageRoll(Times(2, Die(6)), "Slashing")>>
    /\ call.atk.dmg_bonus = 3
    /\ ret.int = 13

(***************************************************************************)
(* Claims about hit points, saving throws and the to-hit modifier.         *)
(***************************************************************************)
\* the hit-die faces of the specification
SpecFaces(size) ==
    CASE size = "Tiny" -> 4
      [] size = "Small" -> 6
      [] size = "Medium" -> 8
      [] size = "Large" -> 10
      [] size = "Huge" -> 12
      [] size = "Gargantuan" -> 20

\* twice h * ((f + 1)/2 + c), an integer
TwiceHitPoints(base) ==
    base.hit_dice * (SpecFaces(base.size) + 1 + 2 * mods(base).con)

\* C11: expected_hit_points of a creature with h hit dice, hit-die faces f
\* given by its size and Constitution modifier c is the integer part of
\* h * ((f + 1)/2 + c), and 0 when that quantity is negative; a Medium
\* creature with 8 hit dice and Constitution modifier +2 has 52.
C11_ExpectedHitPoints ==
    call.op = "expected_hit_points" =>
        LET q2 == TwiceHitPoints(call.base)
        IN  /\ ret.int = (IF q2 < 0 THEN 0 ELSE q2 \div 2)
            /\ ret.int >= 0
            /\ ((call.base.size = "Medium" /\ call.base.hit_dice = 8
                    /\ mods(call.base).con = 2) => ret.int = 52)

\* a Tiny creature with Constitution 0: 3 * (2.5 - 5) is negative
C11_Witness ==
    /\ call.op = "expected_hit_points"
    /\ call.base.size = "Tiny"
    /\ call.base.hit_dice = 3
    /\ mods(call.base).con = -5
    /\ ret.int = 0

\* the no-save total: the per-roll sum plus the flat bonus again
FullDamage(pair, atk) == expected_single_damage_sum(pair, atk) + atk.dmg_bonus

\* the DC of the specification: the literal one, or 8 + proficiency + the
\* attacker's modifier for the granting ability, clamped at 0
SpecDC(pair, sdc) ==
    IF sdc.tag = "Exactly"
    THEN sdc.n
    ELSE clamp_isize(8 + prof_bonus(pair.attacker)
                       + Abilities_index(Creature_mods(pair.attacker), sdc.ab))

\* the defender's modifier for the save ability, 0 for a death save
SpecSaveModifier(pair, sk) ==
    IF sk.tag = "Death" THEN 0 ELSE Abilities_index(Creature_mods(pair.defenders), sk.ab)

\* DC - save_modifier, the threshold the d20 has to reach
SaveThreshold(pair, atk) ==
    SpecDC(pair, atk.save.v.sdc) - SpecSaveModifier(pair, atk.save.v.sk)

\* p_pass * (full * f) + (1 - p_pass) * full, exactly
SpecSaveMix(pair, atk) ==
    LET full == FromInt(FullDamage(pair, atk))
        f == atk.save.v.sef.amt
        p_pass == RSub(FromInt(1), SpecCDF(Die(20), SaveThreshold(pair, atk) - 1))
    IN  RAdd(RMul(p_pass, RMul(full, f)), RMul(RSub(FromInt(1), p_pass), full))

\* C12: for an attack with a saving throw of effect ReducesDamage(f),
\* expected_single_damage is p_pass * (full * f) + (1 - p_pass) * full clamped
\* at 0, with p_pass = pass_probability(Die(20), DC - save_modifier); so it
\* is the full damage when DC - save_modifier >= 21, the fully mitigated
\* damage when DC - save_modifier <= 1, and for f in [0,1] never more than
\* the no-save value.
C12_SaveFormula ==
    (call.op = "expected_single_damage" /\ ~NoSave(call.atk)) =>
        LET pair == call.pair
            atk == call.atk
            full == FullDamage(pair, atk)
            t == SaveThreshold(pair, atk)
        IN  /\ ret.ok
            /\ ret.int = clamp_isize(AsIsize(SpecSaveMix(pair, atk)))
            /\ (t >= 21 => ret.int = clamp_isize(full))
            /\ (t <= 1 =>
                    ret.int = clamp_isize(AsIsize(RMul(FromInt(full), atk.save.v.sef.amt))))
            /\ ret.int <= clamp_isize(full)

\* expected(expression) * damage_factor(defender, kind) of the roll at idx
ScaledExpectation(pair, atk, idx) ==
    RMul(Rat(ClosedFormTwice(atk.dmg_rolls[idx].ex), 2),
         damage_factor(pair.defenders.base, atk.dmg_rolls[idx].kind))

\* the flat bonus, at the first entry only (the list is 1-indexed here)
BonusAt(atk, idx) == IF idx = 1 THEN atk.dmg_bonus ELSE 0

\* the integer part of a real, 0 for a negative one
NonNegPart(x) == IF RLt(x, FromInt(0)) THEN 0 ELSE x.n \div x.d

\* what holds of the list as stated and as amended: one entry per pair, in
\* order and of the same kind, none negative, the bonus in the first only,
\* an immune kind giving the bonus (first entry) or 0
ListShape ==
    LET pair == call.pair
        atk == call.atk
        n == Len(atk.dmg_rolls)
        bare == expected_single_damage_rolls(pair, [atk EXCEPT !.dmg_bonus = 0])
    IN  /\ ret.ok
        /\ Len(ret.vec) = n
        /\ \A i \in 1 .. n :
            /\ ret.vec[i].kind = atk.dmg_rolls[i].kind
            /\ ret.vec[i].amount >= 0
            /\ (i > 1 => ret.vec[i] = bare[i])
            /\ (atk.dmg_rolls[i].kind \in pair.defenders.base.immunities =>
                    ret.vec[i].amount = (IF BonusAt(atk, i) > 0 THEN BonusAt(atk, i) ELSE 0))

\* C13 as stated: the amount at index i is expected * damage_factor plus the
\* flat bonus (index 0 only), clamped at 0 and taken as an integer.
C13_AsStated ==
    call.op = "expected_single_damage_rolls" =>
        /\ ListShape
        /\ \A i \in 1 .. Len(call.atk.dmg_rolls) :
            ret.vec[i].amount =
                NonNegPart(RAdd(ScaledExpectation(call.pair, call.atk, i),
                                FromInt(BonusAt(call.atk, i))))

\* C13, amended: the amount at index i is the integer part of
\* max(0, expected * damage_factor), plus the flat bonus (index 0 only),
\* clamped at 0: a negative expectation counts as 0 before the bonus is
\* added.  One entry per (expression, kind) pair in order and of the same
\* kind, the bonus in the index-0 entry only, an immune kind giving the
\* bonus (index 0) or 0, no entry negative.
C13_PerRollList ==
    call.op = "expected_single_damage_rolls" =>
        /\ ListShape
        /\ \A i \in 1 .. Len(call.atk.dmg_rolls) :
            LET sum == NonNegPart(ScaledExpectation(call.pair, call.atk, i))
                         + BonusAt(call.atk, i)
            IN  ret.vec[i].amount = (IF sum < 0 THEN 0 ELSE sum)

\* Constant(-2) with flat bonus 3: the entry is 3, not 1
C13_Witness ==
    /\ call.op = "expected_single_damage_rolls"
    /\ call.atk.dmg_rolls = <<DamageRoll(Const(-2), "Slashing")>>
    /\ call.atk.dmg_bonus = 3
    /\ call.pair.defenders.base.immunities = {}
    /\ ret.vec = <<Damage(3, "Slashing")>>

\* the ability term of the specification: 0 for Special; for Melee and
\* Ranged the Strength or the Dexterity modifier, or with finesse the larger
\* of the two whichever the kind
SpecAbilityTerm(atk, m) ==
    LET s == Abilities_index(m, "Str")
        d == Abilities_index(m, "Dex")
    IN  CASE atk.kind = "Special" -> 0
          [] atk.kind # "Special" /\ atk.finesse -> (IF s > d THEN s ELSE d)
          [] atk.kind = "Melee" /\ ~atk.finesse -> s
          [] atk.kind = "Ranged" /\ ~atk.finesse -> d

SpecToHitModifier(atk, m, prof) ==
    atk.to_hit_bonus + (IF atk.proficient THEN prof ELSE 0) + SpecAbilityTerm(atk, m)

\* C14: to_hit_modifier is to_hit_bonus, plus the proficiency bonus if the
\* attack is proficient, plus the ability term: 0 for a Special attack, and
\* for Melee and Ranged the Strength resp. Dexterity modifier without finesse
\* and max(Strength, Dexterity) with finesse whichever of the two kinds; the
\* result is not clamped.  attack_to_hit_modifier takes the attacker's own
\* modifiers and the proficiency bonus of the attacker's CR.
C14_ToHitModifier ==
    /\ call.op = "Attack_modifier" =>
            (ret.ok /\ ret.int = SpecToHitModifier(call.atk, call.mods, call.prof))
    /\ call.op = "attack_modifier" =>
            /\ ret.ok
            /\ ret.int =
                    SpecToHitModifier(call.atk, mods(call.pair.attacker.base),
                        StepLookup(SpecProficiency, 9, SpecRealValue(call.pair.attacker.cr)))

\* a Ranged finesse attack of an attacker with Strength 7 and Dexterity 1,
\* not proficient, to_hit_bonus -1: -1 + max(-1, -4) = -2, left negative
C14_Witness ==
    /\ call.op = "attack_modifier"
    /\ call.atk.kind = "Ranged"
    /\ call.atk.finesse
    /\ ~call.atk.proficient
    /\ call.atk.to_hit_bonus = -1
    /\ call.pair.attacker.base.ascores.str = 7
    /\ call.pair.attacker.base.ascores.dex = 1
    /\ ret.int = -2

(***************************************************************************)
(* Claims about the engine as a whole.                                     *)
(***************************************************************************)
\* the operations of the combat engine
EngineOps ==
    {"expected_targets", "expected_single_damage_rolls", "expected_single_damage_sum",
     "expected_single_damage", "expected_damage", "attack_modifier", "expected_hit_ac"}

\* the distribution of a damage roll of the attack is one cum_prob refuses
HasUnsupportedRoll(atk) ==
    \E i \in 1 .. Len(atk.dmg_rolls) : ~cum_prob(atk.dmg_rolls[i].ex, 0).ok

\* C15: no operation of the combat engine reaches the unsupported-
\* distribution failure, whatever the attack (with or without a saving
\* throw, with compound damage rolls), the attacker, the defender and the
\* settings: pass probability is asked of Die(20) only, which answers for
\* every threshold, and damage expressions are evaluated through expected().
C15_EngineNeverUnsupported ==
    /\ call.op \in EngineOps => (ret.ok /\ ret # Unimplemented)
    /\ (call.op \in {"expected_single_damage", "expected_damage"} /\ ~NoSave(call.atk)) =>
            prob_pass(Die(20), SaveThreshold(call.pair, call.atk)).ok

\* an area attack with a saving throw and the damage rolls 1d8 + 1 and
\* 1 x (1d4 + 1d4), neither of which cum_prob answers
C15_Witness ==
    /\ call.op = "expected_damage"
    /\ ~NoSave(call.atk)
    /\ call.atk.target.tag = "Area"
    /\ Len(call.atk.dmg_rolls) = 2
    /\ HasUnsupportedRoll(call.atk)
    /\ ret.ok
    /\ ret.int > 0

====
